---- MODULE Spec2Model ----
(***************************************************************************)
(* A model of package signature (github.com/manifoldco/go-signature):      *)
(* the canonical form of a request (Canonize), the signature chain        *)
(* (ParseSignature, Signature.Validate), Verifier.Verify and the          *)
(* middleware (Verifier.Negroni, Wrap, WrapFunc, Error.Respond).          *)
(*                                                                         *)
(* Go strings and byte slices are sequences of bytes (0..255); a text is  *)
(* written as the sequence of its ASCII codes, with the text in a comment.*)
(***************************************************************************)
EXTENDS Integers, Sequences, FiniteSets, TLC

-----------------------------------------------------------------------------
(* Library functions the package calls (strings, sort, net/textproto,      *)
(* net/url), each computed as the Go library computes it.                  *)

SetMin(S) == CHOOSE x \in S : \A y \in S : x <= y
SetMax(S) == CHOOSE x \in S : \A y \in S : y <= x

\* strings.ToLower, on ASCII
ToLowerByte(c) == IF c >= 65 /\ c <= 90 THEN c + 32 ELSE c
ToLower(s) == [i \in 1..Len(s) |-> ToLowerByte(s[i])]

\* strings.TrimSpace, on ASCII: \t \n \v \f \r and the space
IsSpace(c) == c \in {9, 10, 11, 12, 13, 32}
TrimSpace(s) ==
    LET keep == {i \in 1..Len(s) : ~IsSpace(s[i])}
    IN  IF keep = {} THEN <<>> ELSE SubSeq(s, SetMin(keep), SetMax(keep))

\* strings.Split(s, sep) for a one-byte separator: "" gives one empty part
RECURSIVE Split(_, _)
Split(s, sep) ==
    LET at == {i \in 1..Len(s) : s[i] = sep}
    IN  IF at = {} THEN <<s>>
        ELSE <<SubSeq(s, 1, SetMin(at) - 1)>>
                 \o Split(SubSeq(s, SetMin(at) + 1, Len(s)), sep)

\* strings.Join
RECURSIVE Join(_, _)
Join(parts, sep) ==
    IF parts = <<>> THEN <<>>
    ELSE IF Len(parts) = 1 THEN parts[1]
    ELSE parts[1] \o sep \o Join(Tail(parts), sep)

\* the order of Go's < on strings: byte-wise, a proper prefix first
StrLess(a, b) ==
    \E i \in 1..Len(b) :
        /\ \A j \in 1..(i - 1) : j <= Len(a) /\ a[j] = b[j]
        /\ \/ i = Len(a) + 1
           \/ i <= Len(a) /\ a[i] < b[i]

\* sort.Strings: ascending by StrLess (equal strings are identical, so the
\* result does not depend on the sorting algorithm)
RECURSIVE Insert(_, _)
Insert(x, sorted) ==
    IF sorted = <<>> THEN <<x>>
    ELSE IF StrLess(sorted[1], x) THEN <<sorted[1]>> \o Insert(x, Tail(sorted))
    ELSE <<x>> \o sorted

\* a Canonize that leaves the query segments in the order they came
SortStringsOmitted(parts) == parts

RECURSIVE SortStrings(_)
SortStrings(parts) ==
    IF parts = <<>> THEN <<>> ELSE Insert(parts[1], SortStrings(Tail(parts)))

IsAlnum(c) == (c >= 48 /\ c <= 57) \/ (c >= 65 /\ c <= 90) \/ (c >= 97 /\ c <= 122)

\* net/textproto validHeaderFieldByte: the token bytes of RFC 7230
ValidHeaderFieldByte(c) ==
    IsAlnum(c) \/ c \in {33, 35, 36, 37, 38, 39, 42, 43, 45, 46, 94, 95, 96, 124, 126}

\* http.CanonicalHeaderKey: a name with a byte that is no token byte is
\* returned as it is; otherwise the first letter and each letter after a '-'
\* are upper case and the others lower case
CanonicalHeaderKey(s) ==
    IF \E i \in 1..Len(s) : ~ValidHeaderFieldByte(s[i]) THEN s
    ELSE [i \in 1..Len(s) |->
            IF i = 1 \/ s[i - 1] = 45
            THEN (IF s[i] >= 97 /\ s[i] <= 122 THEN s[i] - 32 ELSE s[i])
            ELSE ToLowerByte(s[i])]

\* the entries of an http.Header (a map from names to value lists)
HeaderValues(header, key) == IF key \in DOMAIN header THEN header[key] ELSE <<>>

\* http.Header.Get: the first value under the canonical form of the name
HeaderGet(header, key) ==
    LET v == HeaderValues(header, CanonicalHeaderKey(key))
    IN  IF v = <<>> THEN <<>> ELSE v[1]

\* net/url shouldEscape(c, encodePath) and escape: %XX with upper-case hex
ShouldEscapePath(c) ==
    ~(IsAlnum(c) \/ c \in {45, 95, 46, 126, 36, 38, 43, 44, 47, 58, 59, 61, 64})
HexDigit(n) == IF n < 10 THEN 48 + n ELSE 55 + n
RECURSIVE EscapePath(_)
EscapePath(s) ==
    IF s = <<>> THEN <<>>
    ELSE (IF ShouldEscapePath(s[1])
          THEN <<37, HexDigit(s[1] \div 16), HexDigit(s[1] % 16)>>
          ELSE <<s[1]>>) \o EscapePath(Tail(s))

\* url.URL.EscapedPath of a URL whose RawPath is empty
EscapedPath(url) == IF url.Path = <<42>> THEN <<42>> ELSE EscapePath(url.Path)

\* "x-signed-headers", "X-Signature", "Date", "Host", "GET"
StrXSignedHeaders == <<120, 45, 115, 105, 103, 110, 101, 100, 45, 104, 101, 97, 100, 101, 114, 115>>
StrXSignature == <<88, 45, 83, 105, 103, 110, 97, 116, 117, 114, 101>>
StrDate == <<68, 97, 116, 101>>
StrHost == <<72, 111, 115, 116>>
MethodGet == <<71, 69, 84>>

-----------------------------------------------------------------------------
(* Canonize(req, body).  A request is [Method, URL: [Path, RawQuery, Host],*)
(* Host, Header]; a reader is [data, err]: reading it to its end gives     *)
(* data and then either EOF (err = FALSE) or a read error.                 *)

\* one header line: lower(NAME) ": " VALUES "\n"
HeaderLine(req, h) ==
    LET ch == CanonicalHeaderKey(h)
        host == IF req.Host = <<>> THEN req.URL.Host ELSE req.Host
        rhvs == IF ch = StrHost THEN <<host>> ELSE HeaderValues(req.Header, ch)
        hvs == [i \in 1..Len(rhvs) |-> TrimSpace(rhvs[i])]
    IN  ToLower(h) \o <<58, 32>> \o Join(hvs, <<44, 32>>) \o <<10>>

\* the request target: lower(METHOD) " " PATH ['?' canonical(QUERY)] "\n"
RequestTarget(req) ==
    LET method == IF req.Method = <<>> THEN MethodGet ELSE req.Method
    IN  ToLower(method) \o <<32>> \o EscapedPath(req.URL)
          \o (IF Len(req.URL.RawQuery) > 0
              THEN <<63>> \o Join(SortStrings(Split(req.URL.RawQuery, 38)), <<38>>)
              ELSE <<>>)
          \o <<10>>

\* the names written: those of X-Signed-Headers, then x-signed-headers
SignedHeaderNames(req) ==
    Append(Split(HeaderGet(req.Header, StrXSignedHeaders), 32), StrXSignedHeaders)

RECURSIVE HeaderLines(_, _)
HeaderLines(req, names) ==
    IF names = <<>> THEN <<>>
    ELSE HeaderLine(req, names[1]) \o HeaderLines(req, Tail(names))

Canonize(req, body) ==
    [bytes |-> RequestTarget(req) \o HeaderLines(req, SignedHeaderNames(req)) \o body.data,
     err |-> body.err]

-----------------------------------------------------------------------------
(* Errors.  A Go error value is [type, Code, Message]: an *Error of this   *)
(* package (type "Error"), the nil error, or an error of another package.  *)
(* A call that panics instead of returning yields Panic.                   *)

NoError == [type |-> "nil", Code |-> 0, Message |-> ""]
Error(code, message) == [type |-> "Error", Code |-> code, Message |-> message]
CorruptInputError == [type |-> "base64.CorruptInputError", Code |-> 0,
                      Message |-> "illegal base64 data"]
Panic == [type |-> "panic", Code |-> 0, Message |-> "ed25519: bad public key length"]

\* const PermittedTimeSkew = 5 * time.Minute; durations are counted in minutes
PermittedTimeSkew == 5

\* ed25519.PublicKeySize and ed25519.SignatureSize
PublicKeySize == 32
SignatureSize == 64

\* time.Duration is a two's-complement integer (64 bits of nanoseconds in Go);
\* the model counts minutes and keeps DurationBits bits
DurationBits == 8
MinDuration == 0 - 2^(DurationBits - 1)
MaxDuration == 2^(DurationBits - 1) - 1
WrapDuration(x) == ((x - MinDuration) % 2^DurationBits) + MinDuration
\* Go's unary minus on a Duration: -MinDuration overflows to MinDuration
NegDuration(d) == WrapDuration(0 - d)

-----------------------------------------------------------------------------
(* github.com/manifoldco/go-base64: a Value is a byte slice written as     *)
(* unpadded URL-safe base64 (encoding/base64.RawURLEncoding).              *)

\* the value of a base64url digit, -1 for any other byte
B64Value(c) ==
    IF c >= 65 /\ c <= 90 THEN c - 65
    ELSE IF c >= 97 /\ c <= 122 THEN c - 71
    ELSE IF c >= 48 /\ c <= 57 THEN c + 4
    ELSE IF c = 45 THEN 62
    ELSE IF c = 95 THEN 63
    ELSE 0 - 1

B64Digit(v) ==
    IF v < 26 THEN v + 65
    ELSE IF v < 52 THEN v + 71
    ELSE IF v < 62 THEN v - 4
    ELSE IF v = 62 THEN 45
    ELSE 95

\* a quantum of 4 digits is 3 bytes; a last quantum of 2 or 3 digits is 1 or 2
\* bytes, its unused low bits dropped
RECURSIVE DecodeQuanta(_)
DecodeQuanta(s) ==
    IF Len(s) < 2 THEN <<>>
    ELSE LET v1 == B64Value(s[1])
             v2 == B64Value(s[2])
             b1 == v1 * 4 + (v2 \div 16)
         IN  IF Len(s) = 2 THEN <<b1>>
             ELSE LET v3 == B64Value(s[3])
                      b2 == (v2 % 16) * 16 + (v3 \div 4)
                  IN  IF Len(s) = 3 THEN <<b1, b2>>
                      ELSE <<b1, b2, (v3 % 4) * 64 + B64Value(s[4])>>
                               \o DecodeQuanta(SubSeq(s, 5, Len(s)))

NotNewline(c) == c # 10 /\ c # 13

\* base64.NewFromString: RawURLEncoding.DecodeString.  CR and LF are skipped;
\* a byte outside the alphabet ('=' too) or a lone last digit is an error
NewFromString(encoded) ==
    LET s == SelectSeq(encoded, NotNewline)
    IN  IF (\E i \in 1..Len(s) : B64Value(s[i]) < 0) \/ Len(s) % 4 = 1
        THEN [value |-> <<>>, err |-> CorruptInputError]
        ELSE [value |-> DecodeQuanta(s), err |-> NoError]

\* base64.Value.String: RawURLEncoding.EncodeToString
RECURSIVE EncodeToString(_)
EncodeToString(b) ==
    IF b = <<>> THEN <<>>
    ELSE IF Len(b) = 1
    THEN <<B64Digit(b[1] \div 4), B64Digit((b[1] % 4) * 16)>>
    ELSE IF Len(b) = 2
    THEN <<B64Digit(b[1] \div 4), B64Digit((b[1] % 4) * 16 + (b[2] \div 16)),
           B64Digit((b[2] % 16) * 4)>>
    ELSE <<B64Digit(b[1] \div 4), B64Digit((b[1] % 4) * 16 + (b[2] \div 16)),
           B64Digit((b[2] % 16) * 4 + (b[3] \div 64)), B64Digit(b[3] % 64)>>
             \o EncodeToString(SubSeq(b, 4, Len(b)))

-----------------------------------------------------------------------------
(* The signature chain.                                                    *)

NoSignature == [Value |-> <<>>, PublicKey |-> <<>>, Endorsement |-> <<>>]

\* Signature.String
SignatureString(s) ==
    EncodeToString(s.Value) \o <<32>> \o EncodeToString(s.PublicKey)
        \o <<32>> \o EncodeToString(s.Endorsement)

\* ParseSignature: (nil, sigerr) unless there are 3 parts; (nil, the decoding
\* error) for the first part that does not decode
ParseSignature(value) ==
    LET sigerr == Error(400, "Could not parse Signature chain")
        parts == Split(value, 32)
    IN  IF Len(parts) # 3 THEN [sig |-> NoSignature, ok |-> FALSE, err |-> sigerr]
        ELSE LET v == NewFromString(parts[1])
                 k == NewFromString(parts[2])
                 e == NewFromString(parts[3])
             IN  IF v.err # NoError THEN [sig |-> NoSignature, ok |-> FALSE, err |-> v.err]
                 ELSE IF k.err # NoError THEN [sig |-> NoSignature, ok |-> FALSE, err |-> k.err]
                 ELSE IF e.err # NoError THEN [sig |-> NoSignature, ok |-> FALSE, err |-> e.err]
                 ELSE [sig |-> [Value |-> v.value, PublicKey |-> k.value,
                                Endorsement |-> e.value],
                       ok |-> TRUE, err |-> NoError]

-----------------------------------------------------------------------------
(* State.  The per-call variables are functions of the call (a request     *)
(* being served by the middleware, or a direct call of Verify).            *)

VARIABLES
    pk,          \* Verifier.pk: the master public key
    issued,      \* the signatures key holders have made: <<public key, message, signature>>
    entry,       \* entry[p]: "Negroni" (the middleware serves p) or "Verify" (a direct call)
    req,         \* req[p]: Method, URL, Host and Header of the request
    since,       \* since[p]: what timeSince returns for the request's parsed date
    pc,          \* pc[p]: the statement call p is at
    body,        \* body[p]: the original request body stream [data, err, off, reads]
    buf,         \* buf[p]: the middleware's bytes.Buffer b [data, off]
    reqBody,     \* reqBody[p]: what req.Body is: [kind, data, off]
    sig,         \* sig[p]: Verify's parsed Signature
    canon,       \* canon[p]: Verify's canonical bytes b
    result,      \* result[p]: what Verify returned
    rw,          \* rw[p]: the responses written to the ResponseWriter, in order
    nextCalls,   \* nextCalls[p]: how many times the inner handler was invoked
    handlerSaw,  \* handlerSaw[p]: what the inner handler read from req.Body
    verifyRead,  \* verifyRead[p]: how many times Verify read its body reader
    sigChecks,   \* sigChecks[p]: how many ed25519.Verify calls Verify made
    arg,         \* the argument of a single library call (Canonize, ParseSignature, Validate)
    ret          \* its result, once called

vars == <<pk, issued, entry, req, since, pc, body, buf, reqBody, sig, canon, result, rw,
          nextCalls, handlerSaw, verifyRead, sigChecks, arg, ret>>

callVars == <<entry, req, since, pc, body, buf, reqBody, sig, canon, result, rw,
              nextCalls, handlerSaw, verifyRead, sigChecks>>

-----------------------------------------------------------------------------
(* golang.org/x/crypto/ed25519.Verify(publicKey, message, sig).  It panics *)
(* when publicKey is not PublicKeySize bytes long, and is false for a sig  *)
(* that is not SignatureSize bytes long or has one of the top 3 bits of    *)
(* its last byte set.  Otherwise it is true exactly of the signatures the  *)
(* holder of publicKey's private key has made (unforgeability).            *)

Ed25519Panics(publicKey) == Len(publicKey) # PublicKeySize

Ed25519Verify(publicKey, message, s) ==
    /\ Len(s) = SignatureSize
    /\ s[SignatureSize] \div 32 = 0
    /\ <<publicKey, message, s>> \in issued

\* Signature.Validate(masterPubKey, b): the error returned, or Panic
Validate(s, masterPubKey, b) ==
    IF Ed25519Panics(masterPubKey) THEN Panic
    ELSE IF ~Ed25519Verify(masterPubKey, s.PublicKey, s.Endorsement)
    THEN Error(401, "Request Public Key was not endorsed by Manifold")
    ELSE IF Ed25519Panics(s.PublicKey) THEN Panic
    ELSE IF ~Ed25519Verify(s.PublicKey, b, s.Value)
    THEN Error(401, "Request was not signed by included Public Key")
    ELSE NoError

\* the ed25519.Verify calls Validate makes before it returns or panics
ValidateChecks(s, masterPubKey) ==
    IF Ed25519Panics(masterPubKey) THEN 1
    ELSE IF ~Ed25519Verify(masterPubKey, s.PublicKey, s.Endorsement) THEN 1
    ELSE 2

-----------------------------------------------------------------------------
(* time.Parse(time.RFC3339, value): whether value parses.                  *)
(* YYYY-MM-DDTHH:MM:SS, an optional fraction, then Z or +hh:mm or -hh:mm.  *)

IsDigit(c) == c >= 48 /\ c <= 57
Num2(s, i) == (s[i] - 48) * 10 + (s[i + 1] - 48)
Num4(s, i) == Num2(s, i) * 100 + Num2(s, i + 2)
IsLeap(y) == y % 4 = 0 /\ (y % 100 # 0 \/ y % 400 = 0)
DaysIn(m, y) ==
    IF m = 2 THEN (IF IsLeap(y) THEN 29 ELSE 28)
    ELSE IF m \in {4, 6, 9, 11} THEN 30 ELSE 31

\* the zone: "Z", or a sign and hh:mm with hh < 24 and mm < 60
IsZone(z) ==
    \/ z = <<90>>
    \/ /\ Len(z) = 6
       /\ z[1] \in {43, 45}
       /\ z[4] = 58
       /\ \A i \in {2, 3, 5, 6} : IsDigit(z[i])
       /\ Num2(z, 2) < 24
       /\ Num2(z, 5) < 60

ParsesRFC3339(value) ==
    /\ Len(value) >= 20
    /\ \A i \in {1, 2, 3, 4, 6, 7, 9, 10, 12, 13, 15, 16, 18, 19} : IsDigit(value[i])
    /\ value[5] = 45 /\ value[8] = 45 /\ value[11] = 84
    /\ value[14] = 58 /\ value[17] = 58
    /\ Num2(value, 6) \in 1..12
    /\ Num2(value, 9) \in 1..DaysIn(Num2(value, 6), Num4(value, 1))
    /\ Num2(value, 12) < 24 /\ Num2(value, 15) < 60 /\ Num2(value, 18) < 60
    /\ LET rest == SubSeq(value, 20, Len(value))
           frac == {n \in 1..(Len(rest) - 1) :
                       rest[1] = 46 /\ \A i \in 2..(n + 1) : i <= Len(rest) /\ IsDigit(rest[i])}
       IN  \/ IsZone(rest)
           \/ \E n \in frac : IsZone(SubSeq(rest, n + 2, Len(rest)))

-----------------------------------------------------------------------------
(* Error.Respond(rw): one response [Code, Header, Body].                   *)

\* strconv.Itoa of a number >= 0
RECURSIVE Itoa(_)
Itoa(n) == IF n < 10 THEN <<48 + n>> ELSE Itoa(n \div 10) \o <<48 + (n % 10)>>

\* json.Marshal of an *Error: Code is not marshalled (json:"-"), and the
\* package's messages hold no byte that JSON escapes
JsonMarshal(e) == "{\"message\":\"" \o e.Message \o "\"}"

Respond(e) ==
    LET b == JsonMarshal(e)
    IN  [Code |-> e.Code,
         Header |-> [ContentType |-> "application/json", ContentLength |-> Itoa(Len(b))],
         Body |-> b]

-----------------------------------------------------------------------------
(* Readers.  A reader is [kind, data, off]: the original body stream       *)
(* ("stream", the state is body[p]), the middleware's bytes.Buffer         *)
(* ("buffer", the state is buf[p]) or a bytes.Reader of its own over a     *)
(* byte slice ("reader").  Reading one to its end gives its unread bytes.  *)

StreamReader == [kind |-> "stream", data |-> <<>>, off |-> 0]
BufferReader == [kind |-> "buffer", data |-> <<>>, off |-> 0]

Unread(data, off) == SubSeq(data, off + 1, Len(data))

ReaderData(p, r) ==
    IF r.kind = "stream" THEN Unread(body[p].data, body[p].off)
    ELSE IF r.kind = "buffer" THEN Unread(buf[p].data, buf[p].off)
    ELSE Unread(r.data, r.off)

ReaderErr(p, r) == r.kind = "stream" /\ body[p].err

\* the streams after r was read to its end
BodyAfterRead(p, r) ==
    IF r.kind = "stream"
    THEN [body EXCEPT ![p] = [@ EXCEPT !.off = Len(body[p].data), !.reads = @ + 1]]
    ELSE body
BufAfterRead(p, r) ==
    IF r.kind = "buffer" THEN [buf EXCEPT ![p] = [@ EXCEPT !.off = Len(buf[p].data)]] ELSE buf
ReqBodyAfterRead(p, r) ==
    IF r.kind = "reader" THEN [reqBody EXCEPT ![p] = [@ EXCEPT !.off = Len(r.data)]]
    ELSE reqBody

\* a req.Body that is the buffer b itself (ioutil.NopCloser(b)): it shares b's
\* read offset
NewRequestBodySharingBuffer(b) == BufferReader

\* ioutil.NopCloser(bytes.NewReader(b.Bytes())): a reader of its own over the
\* unread bytes of b
NewRequestBody(b) == [kind |-> "reader", data |-> Unread(b.data, b.off), off |-> 0]

\* the reader Verify is given: the middleware passes its buffer b, a direct
\* caller its own reader
VerifyBody(p) == IF entry[p] = "Negroni" THEN BufferReader ELSE StreamReader

-----------------------------------------------------------------------------
(* Verifier.Verify(req, body), one action per step.                        *)

Pending == [type |-> "pending", Code |-> 0, Message |-> ""]

Goto(p, label) == pc' = [pc EXCEPT ![p] = label]
Return(p, e) == Goto(p, "returned") /\ result' = [result EXCEPT ![p] = e]

\* sigHeader := req.Header.Get("X-Signature"); if sigHeader == "" ...
VerifySigHeader(p) ==
    /\ pc[p] = "sigHeader"
    /\ IF HeaderGet(req[p].Header, StrXSignature) = <<>>
       THEN Return(p, Error(400, "Missing X-Signature header"))
       ELSE Goto(p, "ParseSignature") /\ UNCHANGED result
    /\ UNCHANGED <<pk, issued, entry, req, since, body, buf, reqBody, sig, canon, rw,
                   nextCalls, handlerSaw, verifyRead, sigChecks, arg, ret>>

\* sig, err := ParseSignature(sigHeader); if err != nil ...
VerifyParseSignature(p) ==
    /\ pc[p] = "ParseSignature"
    /\ LET parsed == ParseSignature(HeaderGet(req[p].Header, StrXSignature))
       IN  IF parsed.err # NoError
           THEN Return(p, Error(400, "Could not parse X-Signature header"))
                /\ UNCHANGED sig
           ELSE Goto(p, "headerList") /\ sig' = [sig EXCEPT ![p] = parsed.sig]
                /\ UNCHANGED result
    /\ UNCHANGED <<pk, issued, entry, req, since, body, buf, reqBody, canon, rw,
                   nextCalls, handlerSaw, verifyRead, sigChecks, arg, ret>>

\* headerList := req.Header.Get("X-Signed-Headers"); if headerList == "" ...
VerifyHeaderList(p) ==
    /\ pc[p] = "headerList"
    /\ IF HeaderGet(req[p].Header, StrXSignedHeaders) = <<>>
       THEN Return(p, Error(400, "Missing X-Signed-Headers header"))
       ELSE Goto(p, "Date") /\ UNCHANGED result
    /\ UNCHANGED <<pk, issued, entry, req, since, body, buf, reqBody, sig, canon, rw,
                   nextCalls, handlerSaw, verifyRead, sigChecks, arg, ret>>

\* rt, err := time.Parse(time.RFC3339, req.Header.Get("Date")); if err != nil ...
VerifyDate(p) ==
    /\ pc[p] = "Date"
    /\ IF ~ParsesRFC3339(HeaderGet(req[p].Header, StrDate))
       THEN Return(p, Error(400, "Unable to read request date"))
       ELSE Goto(p, "timeSince") /\ UNCHANGED result
    /\ UNCHANGED <<pk, issued, entry, req, since, body, buf, reqBody, sig, canon, rw,
                   nextCalls, handlerSaw, verifyRead, sigChecks, arg, ret>>

\* delta := timeSince(rt); if delta < 0 { delta = -delta }
AbsDelta(d) == IF d < 0 THEN NegDuration(d) ELSE d

\* if delta > PermittedTimeSkew ...
SkewTooGreat(d) == AbsDelta(d) > PermittedTimeSkew

VerifySkew(p) ==
    /\ pc[p] = "timeSince"
    /\ IF SkewTooGreat(since[p])
       THEN Return(p, Error(400, "Request time skew is too great"))
       ELSE Goto(p, "Canonize") /\ UNCHANGED result
    /\ UNCHANGED <<pk, issued, entry, req, since, body, buf, reqBody, sig, canon, rw,
                   nextCalls, handlerSaw, verifyRead, sigChecks, arg, ret>>

\* b, err := Canonize(req, body); if err != nil ...
VerifyCanonize(p) ==
    /\ pc[p] = "Canonize"
    /\ LET r == VerifyBody(p)
           c == Canonize(req[p], [data |-> ReaderData(p, r), err |-> ReaderErr(p, r)])
       IN  /\ body' = BodyAfterRead(p, r)
           /\ buf' = BufAfterRead(p, r)
           /\ verifyRead' = [verifyRead EXCEPT ![p] = @ + 1]
           /\ IF c.err
              THEN Return(p, Error(400, "Unable to read request body")) /\ UNCHANGED canon
              ELSE Goto(p, "Validate") /\ canon' = [canon EXCEPT ![p] = c.bytes]
                   /\ UNCHANGED result
    /\ UNCHANGED <<pk, issued, entry, req, since, reqBody, sig, rw,
                   nextCalls, handlerSaw, sigChecks, arg, ret>>

\* a Validate step that keeps the request's endorsed key in the Verifier
VerifyValidateKeepingKey(p) ==
    /\ pc[p] = "Validate"
    /\ LET e == Validate(sig[p], pk, canon[p])
       IN  /\ result' = [result EXCEPT ![p] = e]
           /\ Goto(p, IF e = Panic THEN "panicked" ELSE "returned")
           /\ pk' = IF e = NoError THEN sig[p].PublicKey ELSE pk
    /\ sigChecks' = [sigChecks EXCEPT ![p] = @ + ValidateChecks(sig[p], pk)]
    /\ UNCHANGED <<issued, entry, req, since, body, buf, reqBody, sig, canon, rw,
                   nextCalls, handlerSaw, verifyRead, arg, ret>>

\* return sig.Validate(v.pk, b)
VerifyValidate(p) ==
    /\ pc[p] = "Validate"
    /\ LET e == Validate(sig[p], pk, canon[p])
       IN  /\ result' = [result EXCEPT ![p] = e]
           /\ Goto(p, IF e = Panic THEN "panicked" ELSE "returned")
    /\ sigChecks' = [sigChecks EXCEPT ![p] = @ + ValidateChecks(sig[p], pk)]
    /\ UNCHANGED <<pk, issued, entry, req, since, body, buf, reqBody, sig, canon, rw,
                   nextCalls, handlerSaw, verifyRead, arg, ret>>

\* Verifier.Verify as a whole, run without interruption: what a call returns
\* (or Panic) for the key vpk, the request r, the clock reading d and a body
\* reader that gives [data, err]
Verify(vpk, r, d, bodyRead) ==
    IF HeaderGet(r.Header, StrXSignature) = <<>>
    THEN Error(400, "Missing X-Signature header")
    ELSE LET parsed == ParseSignature(HeaderGet(r.Header, StrXSignature))
         IN  IF parsed.err # NoError
             THEN Error(400, "Could not parse X-Signature header")
             ELSE IF HeaderGet(r.Header, StrXSignedHeaders) = <<>>
             THEN Error(400, "Missing X-Signed-Headers header")
             ELSE IF ~ParsesRFC3339(HeaderGet(r.Header, StrDate))
             THEN Error(400, "Unable to read request date")
             ELSE IF SkewTooGreat(d)
             THEN Error(400, "Request time skew is too great")
             ELSE LET c == Canonize(r, bodyRead)
                  IN  IF c.err THEN Error(400, "Unable to read request body")
                      ELSE Validate(parsed.sig, vpk, c.bytes)


-----------------------------------------------------------------------------
(* Verifier.Negroni (Wrap and WrapFunc pass their handler to it as next).  *)

\* b.ReadFrom(req.Body); on an error respond 400 and return; otherwise
\* replace req.Body by a reader over b's bytes and call v.Verify(req, b)
NegroniReadBody(p) ==
    /\ pc[p] = "Negroni"
    /\ body' = BodyAfterRead(p, reqBody[p])
    /\ IF ReaderErr(p, reqBody[p])
       THEN /\ rw' = [rw EXCEPT ![p] =
                         Append(@, Respond(Error(400, "Could not ready body from request")))]
            /\ Goto(p, "done")
            /\ UNCHANGED <<buf, reqBody>>
       ELSE LET b == [data |-> ReaderData(p, reqBody[p]), off |-> 0]
            IN  /\ buf' = [buf EXCEPT ![p] = b]
                /\ reqBody' = [reqBody EXCEPT ![p] = NewRequestBody(b)]
                /\ Goto(p, "sigHeader")
                /\ UNCHANGED rw
    /\ UNCHANGED <<pk, issued, entry, req, since, sig, canon, result,
                   nextCalls, handlerSaw, verifyRead, sigChecks, arg, ret>>

\* a middleware whose error branch lacks its return: it responds and goes on to
\* call next
NegroniAfterVerifyFallingThrough(p) ==
    /\ pc[p] = "returned"
    /\ entry[p] = "Negroni"
    /\ IF result[p].type = "Error"
       THEN rw' = [rw EXCEPT ![p] = Append(@, Respond(result[p]))]
       ELSE UNCHANGED rw
    /\ Goto(p, "next")
    /\ UNCHANGED <<pk, issued, entry, req, since, body, buf, reqBody, sig, canon, result,
                   nextCalls, handlerSaw, verifyRead, sigChecks, arg, ret>>

\* if e, ok := err.(*Error); ok { e.Respond(rw); return }
\* if err != nil { respond 401; return }
\* next(rw, req)
NegroniAfterVerify(p) ==
    /\ pc[p] = "returned"
    /\ entry[p] = "Negroni"
    /\ IF result[p].type = "Error"
       THEN rw' = [rw EXCEPT ![p] = Append(@, Respond(result[p]))] /\ Goto(p, "done")
       ELSE IF result[p] # NoError
       THEN /\ rw' = [rw EXCEPT ![p] = Append(@, Respond(
                         Error(401, "Could not validate authenticity of the request")))]
            /\ Goto(p, "done")
       ELSE Goto(p, "next") /\ UNCHANGED rw
    /\ UNCHANGED <<pk, issued, entry, req, since, body, buf, reqBody, sig, canon, result,
                   nextCalls, handlerSaw, verifyRead, sigChecks, arg, ret>>

\* the inner handler, which reads the request body to its end
InnerHandler(p) ==
    /\ pc[p] = "next"
    /\ nextCalls' = [nextCalls EXCEPT ![p] = @ + 1]
    /\ handlerSaw' = [handlerSaw EXCEPT ![p] = ReaderData(p, reqBody[p])]
    /\ body' = BodyAfterRead(p, reqBody[p])
    /\ buf' = BufAfterRead(p, reqBody[p])
    /\ reqBody' = ReqBodyAfterRead(p, reqBody[p])
    /\ Goto(p, "done")
    /\ UNCHANGED <<pk, issued, entry, req, since, sig, canon, result, rw,
                   verifyRead, sigChecks, arg, ret>>

-----------------------------------------------------------------------------
(* The requests served.  Keys and signatures are byte strings; issued      *)
(* holds what the key holders signed: the master key endorsed LiveKey and  *)
(* (the case of a malformed endorsed key) ShortKey, and the holders of     *)
(* LiveKey and OtherKey signed the canonical form of the request they sent.*)

Bytes(n, len) == [i \in 1..len |-> n]

MasterKey == Bytes(1, PublicKeySize)
LiveKey == Bytes(2, PublicKeySize)
OtherKey == Bytes(3, PublicKeySize)
ShortKey == Bytes(2, PublicKeySize - 1)

EndorsementOfLive == Bytes(10, SignatureSize)
EndorsementOfShort == Bytes(11, SignatureSize)
PayloadSig == Bytes(20, SignatureSize)
OtherPayloadSig == Bytes(22, SignatureSize)
UnissuedSig == Bytes(21, SignatureSize)
TruncatedSig == Bytes(20, SignatureSize - 1)

Endorsements ==
    {<<MasterKey, LiveKey, EndorsementOfLive>>, <<MasterKey, ShortKey, EndorsementOfShort>>}

Chain(v, k, e) == [Value |-> v, PublicKey |-> k, Endorsement |-> e]

\* the values of the X-Signature header, by name; <<>> is an absent header
XSignatureOf(kind) ==
    CASE kind = "absent" -> <<>>
      [] kind = "empty" -> << <<>> >>
      [] kind = "two parts" -> << <<65, 65, 32, 65, 65>> >>
      [] kind = "padded" -> << <<65, 65, 61, 61, 32, 65, 65, 32, 65, 65>> >>
      [] kind = "lone digit" -> << <<65, 65, 32, 65, 32, 65, 65>> >>
      [] kind = "empty part" -> << <<65, 65, 32, 32, 65, 65>> >>
      [] kind = "good" ->
            << SignatureString(Chain(PayloadSig, LiveKey, EndorsementOfLive)) >>
      [] kind = "body changed" ->
            << SignatureString(Chain(PayloadSig, LiveKey, EndorsementOfLive)) >>
      [] kind = "unissued signature" ->
            << SignatureString(Chain(UnissuedSig, LiveKey, EndorsementOfLive)) >>
      [] kind = "truncated signature" ->
            << SignatureString(Chain(TruncatedSig, LiveKey, EndorsementOfLive)) >>
      [] kind = "unissued endorsement" ->
            << SignatureString(Chain(PayloadSig, LiveKey, UnissuedSig)) >>
      [] kind = "key not endorsed" ->
            << SignatureString(Chain(OtherPayloadSig, OtherKey, EndorsementOfLive)) >>
      [] kind = "short key" ->
            << SignatureString(Chain(PayloadSig, ShortKey, EndorsementOfLive)) >>
      [] kind = "endorsed short key" ->
            << SignatureString(Chain(PayloadSig, ShortKey, EndorsementOfShort)) >>

XSignatureKinds ==
    {"absent", "empty", "two parts", "padded", "lone digit", "empty part", "good",
     "body changed", "unissued signature", "truncated signature", "unissued endorsement",
     "key not endorsed", "short key", "endorsed short key"}

\* the values of X-Signed-Headers: absent, "date", "host date"
XSignedHeadersValues == {<<>>, << <<100, 97, 116, 101>> >>, << <<104, 111, 115, 116, 32, 100, 97, 116, 101>> >>}

\* the values of Date: absent, an RFC 3339 date, an HTTP-date, a 30th of February
DateValues ==
    {<<>>, << <<50, 48, 49, 55, 45, 48, 51, 45, 48, 53, 84, 50, 51, 58, 53, 51, 58, 48, 56, 90>> >>, << <<83, 117, 110, 44, 32, 48, 53, 32, 77, 97, 114, 32, 50, 48, 49, 55, 32, 50, 51, 58, 53, 51, 58, 48, 56, 32, 71, 77, 84>> >>,
     << <<50, 48, 49, 55, 45, 48, 50, 45, 51, 48, 84, 50, 51, 58, 53, 51, 58, 48, 56, 90>> >>}

\* what timeSince returns, in minutes: time.Since gives MinDuration for a date
\* more than 2^63 ns ahead of the clock and MaxDuration for one as far behind
SinceValues == {MinDuration, 0 - 6, 0 - 5, 0, 5, 6, 30, MaxDuration}

\* request bodies: empty, "hi"
BodyValues == {<<>>, <<104, 105>>}

HeaderEntry(key, values) == IF values = <<>> THEN <<>> ELSE key :> values

\* a PUT of /v1?b=2&a=1 to host h with the given headers
\* (the header names are in canonical form, as net/http stores them)
Request(xsig, xsh, date) ==
    [Method |-> <<80, 85, 84>>,
     URL |-> [Path |-> <<47, 118, 49>>, RawQuery |-> <<98, 61, 50, 38, 97, 61, 49>>, Host |-> <<>>],
     Host |-> <<104>>,
     Header |-> HeaderEntry(StrXSignature, xsig)
                  @@ HeaderEntry(CanonicalHeaderKey(StrXSignedHeaders), xsh)
                  @@ HeaderEntry(StrDate, date)]

\* a scenario is [xsig, xsh, date, since, data, err, entry]
RequestOf(sc) == Request(XSignatureOf(sc.xsig), sc.xsh, sc.date)

\* the message the sender signed: the canonical form of the request it sent,
\* whose body a later hop changed in the scenario "body changed"
SignedMessage(sc) ==
    Canonize(RequestOf(sc),
             [data |-> IF sc.xsig = "body changed" THEN sc.data \o <<33>> ELSE sc.data,
              err |-> FALSE]).bytes

IssuedFor(sc) ==
    {<<LiveKey, SignedMessage(sc), PayloadSig>>,
     <<OtherKey, SignedMessage(sc), OtherPayloadSig>>}

Scenarios ==
    [xsig : XSignatureKinds, xsh : XSignedHeadersValues, date : DateValues,
     since : SinceValues, data : BodyValues, err : BOOLEAN, entry : {"Negroni", "Verify"}]

\* the state when the calls in scs (a function from calls to scenarios) begin
InitCalls(scs) ==
    /\ pk = MasterKey
    /\ entry = [p \in DOMAIN scs |-> scs[p].entry]
    /\ req = [p \in DOMAIN scs |-> RequestOf(scs[p])]
    /\ since = [p \in DOMAIN scs |-> scs[p].since]
    /\ pc = [p \in DOMAIN scs |-> IF scs[p].entry = "Negroni" THEN "Negroni" ELSE "sigHeader"]
    /\ body = [p \in DOMAIN scs |->
                  [data |-> scs[p].data, err |-> scs[p].err, off |-> 0, reads |-> 0]]
    /\ buf = [p \in DOMAIN scs |-> [data |-> <<>>, off |-> 0]]
    /\ reqBody = [p \in DOMAIN scs |-> StreamReader]
    /\ sig = [p \in DOMAIN scs |-> NoSignature]
    /\ canon = [p \in DOMAIN scs |-> <<>>]
    /\ result = [p \in DOMAIN scs |-> Pending]
    /\ rw = [p \in DOMAIN scs |-> <<>>]
    /\ nextCalls = [p \in DOMAIN scs |-> 0]
    /\ handlerSaw = [p \in DOMAIN scs |-> <<>>]
    /\ verifyRead = [p \in DOMAIN scs |-> 0]
    /\ sigChecks = [p \in DOMAIN scs |-> 0]

\* no single library call is made, and the senders have signed their requests
InitServing(scs) ==
    /\ InitCalls(scs)
    /\ issued = Endorsements \cup UNION {IssuedFor(scs[p]) : p \in DOMAIN scs}
    /\ arg = <<>>
    /\ ret = <<>>

Next ==
    \/ \E p \in DOMAIN pc : NegroniReadBody(p)
    \/ \E p \in DOMAIN pc : VerifySigHeader(p)
    \/ \E p \in DOMAIN pc : VerifyParseSignature(p)
    \/ \E p \in DOMAIN pc : VerifyHeaderList(p)
    \/ \E p \in DOMAIN pc : VerifyDate(p)
    \/ \E p \in DOMAIN pc : VerifySkew(p)
    \/ \E p \in DOMAIN pc : VerifyCanonize(p)
    \/ \E p \in DOMAIN pc : VerifyValidate(p)
    \/ \E p \in DOMAIN pc : NegroniAfterVerify(p)
    \/ \E p \in DOMAIN pc : InnerHandler(p)

\* one request at a time
Init == \E sc \in Scenarios : InitServing(1 :> sc)
Spec == Init /\ [][Next]_vars

-----------------------------------------------------------------------------
(* Several calls at once on one Verifier, their steps interleaved.         *)

NumCalls == 2

ConcurrentScenarios ==
    {sc \in Scenarios :
        /\ sc.xsig \in {"absent", "good", "unissued signature"}
        /\ sc.xsh = << <<104, 111, 115, 116, 32, 100, 97, 116, 101>> >>
        /\ sc.date = << <<50, 48, 49, 55, 45, 48, 51, 45, 48, 53, 84, 50, 51, 58, 53, 51, 58, 48, 56, 90>> >>
        /\ sc.since = 0
        /\ sc.data = <<104, 105>>
        /\ ~sc.err}

InitConcurrent == \E scs \in [1..NumCalls -> ConcurrentScenarios] : InitServing(scs)
SpecConcurrent == InitConcurrent /\ [][Next]_vars

-----------------------------------------------------------------------------
(* Single calls of Canonize, ParseSignature and Signature.Validate, on     *)
(* arguments drawn from bounded sets.                                      *)

NotCalled == [called |-> FALSE]
Returned(v) == [called |-> TRUE, value |-> v]

\* no request is being served
NoCalls == InitCalls(<<>>)

\* all sequences of 1..n members of S
RECURSIVE SeqsUpTo(_, _)
SeqsUpTo(S, n) ==
    IF n = 0 THEN {<<>>}
    ELSE LET shorter == SeqsUpTo(S, n - 1)
         IN  shorter \cup {Append(s, x) : s \in shorter, x \in S}

\* ---- Canonize ----

MaxQueryParts == 3

\* query segments: "", "a=0", "A=1", "b"
QuerySegments == {<<>>, <<97, 61, 48>>, <<65, 61, 49>>, <<98>>}
RawQueries == {Join(parts, <<38>>) : parts \in SeqsUpTo(QuerySegments, MaxQueryParts) \ {<<>>}}

\* methods "" and "Put"; paths "/v1" and "/a b"
CanonizeMethods == {<<>>, <<80, 117, 116>>}
CanonizePaths == {<<47, 118, 49>>, <<47, 97, 32, 98>>}

\* X-Signed-Headers: absent; "date"; "Date host"; and sent twice: "date", "host"
CanonizeSignedHeaders ==
    {<<>>, << <<100, 97, 116, 101>> >>, << <<68, 97, 116, 101, 32, 104, 111, 115, 116>> >>,
     << <<100, 97, 116, 101>>, <<104, 111, 115, 116>> >>}

CanonizeRequests ==
    {[Method |-> m,
      URL |-> [Path |-> path, RawQuery |-> q, Host |-> <<117>>],
      Host |-> host,
      Header |-> HeaderEntry(CanonicalHeaderKey(StrXSignedHeaders), xsh)
                   @@ (StrDate :> << <<100, 49>>, <<32, 100, 50, 32>> >>)] :
        m \in CanonizeMethods, path \in CanonizePaths, q \in RawQueries,
        host \in {<<>>, <<104>>}, xsh \in CanonizeSignedHeaders}

CanonizeBodies == {[data |-> d, err |-> e] : d \in BodyValues, e \in BOOLEAN}

InitCanonize ==
    /\ NoCalls
    /\ issued = {}
    /\ arg \in [req : CanonizeRequests, body : CanonizeBodies]
    /\ ret = NotCalled

CanonizeCall ==
    /\ ret = NotCalled
    /\ ret' = Returned(Canonize(arg.req, arg.body))
    /\ UNCHANGED <<pk, issued, callVars, arg>>

SpecCanonize == InitCanonize /\ [][CanonizeCall]_vars

\* ---- ParseSignature ----

MaxHeaderLen == 6

\* the bytes of a header value: 'A', '_', ' ', '='
ParseBytes == {65, 95, 32, 61}

InitParseSignature ==
    /\ NoCalls
    /\ issued = {}
    /\ arg \in SeqsUpTo(ParseBytes, MaxHeaderLen)
    /\ ret = NotCalled

ParseSignatureCall ==
    /\ ret = NotCalled
    /\ ret' = Returned(ParseSignature(arg))
    /\ UNCHANGED <<pk, issued, callVars, arg>>

SpecParseSignature == InitParseSignature /\ [][ParseSignatureCall]_vars

\* ---- Signature.Validate ----

ValidateChains ==
    [Value : {PayloadSig, OtherPayloadSig, UnissuedSig, TruncatedSig, <<>>},
     PublicKey : {LiveKey, OtherKey, ShortKey, <<>>},
     Endorsement : {EndorsementOfLive, EndorsementOfShort, UnissuedSig, <<>>}]

\* two messages, "m1" (which LiveKey and OtherKey have signed) and "m2"
Message1 == <<109, 49>>
Message2 == <<109, 50>>

InitValidate ==
    /\ NoCalls
    /\ issued = Endorsements \cup {<<LiveKey, Message1, PayloadSig>>,
                                   <<OtherKey, Message1, OtherPayloadSig>>}
    /\ arg \in [sig : ValidateChains, b : {Message1, Message2}]
    /\ ret = NotCalled

ValidateCall ==
    /\ ret = NotCalled
    /\ ret' = Returned(Validate(arg.sig, pk, arg.b))
    /\ UNCHANGED <<pk, issued, callVars, arg>>

SpecValidate == InitValidate /\ [][ValidateCall]_vars

-----------------------------------------------------------------------------
(* Properties of Canonize (under SpecCanonize).                            *)

StartsWith(s, prefix) == Len(prefix) <= Len(s) /\ SubSeq(s, 1, Len(prefix)) = prefix
EndsWith(s, suffix) ==
    Len(suffix) <= Len(s) /\ SubSeq(s, Len(s) - Len(suffix) + 1, Len(s)) = suffix

IsSorted(parts) == \A i \in 1..(Len(parts) - 1) : ~StrLess(parts[i + 1], parts[i])
Count(parts, x) == Cardinality({i \in 1..Len(parts) : parts[i] = x})
IsPermutation(a, b) ==
    /\ Len(a) = Len(b)
    /\ \A i \in 1..Len(a) : Count(a, a[i]) = Count(b, a[i])

\* the bytes of s before its first newline
FirstLine(s) == SubSeq(s, 1, SetMin({i \in 1..Len(s) : s[i] = 10}) - 1)

\* C8: the first line of Canonize's output is the lowercased method ("get" for
\* an empty method), a space and the escaped path, followed, only when the raw
\* query is not empty, by "?" and the raw query's "&"-separated segments in
\* ascending byte order (a permutation of them: duplicates and empty segments
\* kept) joined by "&"; then comes a newline.
C8_RequestTarget ==
    ret.called =>
        LET r == arg.req
            out == ret.value.bytes
            method == IF r.Method = <<>> THEN <<103, 101, 116>> ELSE ToLower(r.Method)
            head == method \o <<32>> \o EscapedPath(r.URL)
            line == FirstLine(out)
            query == SubSeq(line, Len(head) + 2, Len(line))
        IN  /\ \E i \in 1..Len(out) : out[i] = 10
            /\ StartsWith(line, head)
            /\ IF r.URL.RawQuery = <<>>
               THEN line = head
               ELSE /\ Len(line) > Len(head)
                    /\ line[Len(head) + 1] = 63
                    /\ IsSorted(Split(query, 38))
                    /\ IsPermutation(Split(query, 38), Split(r.URL.RawQuery, 38))

\* C8's case: "Put /a b" with the query "a=0&&A=1" is written
\* "put /a%20b?&A=1&a=0"
C8_Witness ==
    /\ ret.called
    /\ arg.req.Method = <<80, 117, 116>>
    /\ arg.req.URL.RawQuery = <<97, 61, 48, 38, 38, 65, 61, 49>>
    /\ FirstLine(ret.value.bytes) = <<112, 117, 116, 32, 47, 97, 37, 50, 48, 98, 63, 38, 65, 61, 49, 38, 97, 61, 48>>

\* C7: Canonize's header section ends with the line "x-signed-headers: <list>",
\* <list> being exactly the value of the request's X-Signed-Headers header (its
\* first occurrence, the value that was split into the signed header names), and
\* the body bytes follow that line immediately.
C7_SelfInclusion ==
    ret.called =>
        EndsWith(ret.value.bytes,
                 <<120, 45, 115, 105, 103, 110, 101, 100, 45, 104, 101, 97, 100, 101, 114, 115, 58, 32>>
                     \o HeaderGet(arg.req.Header, StrXSignedHeaders) \o <<10>>
                     \o arg.body.data)

-----------------------------------------------------------------------------
(* Properties of ParseSignature (under SpecParseSignature).                *)

\* C6: ParseSignature accepts a header value iff splitting it on single spaces
\* gives exactly 3 tokens, every token is non-empty and every token decodes as
\* unpadded URL-safe base64; otherwise it returns no Signature and a structured
\* error (an *Error) with code 400.
C6_ParseSignature ==
    ret.called =>
        LET tokens == Split(arg, 32)
            wellFormed ==
                /\ Len(tokens) = 3
                /\ \A i \in 1..3 : tokens[i] # <<>> /\ NewFromString(tokens[i]).err = NoError
        IN  /\ ret.value.ok <=> wellFormed
            /\ ~ret.value.ok =>
                  /\ ret.value.sig = NoSignature
                  /\ ret.value.err.type = "Error"
                  /\ ret.value.err.Code = 400

-----------------------------------------------------------------------------
(* Properties of Signature.Validate (under SpecValidate).                  *)

\* s is a valid Ed25519 signature of message under publicKey: one that the
\* holder of publicKey made
ValidSignature(publicKey, message, s) == <<publicKey, message, s>> \in issued

\* C5: Validate(masterKey, canonicalBytes) succeeds iff Endorsement is a valid
\* signature by masterKey over the bytes of EphemeralPubKey and PayloadSig is a
\* valid signature by EphemeralPubKey over canonicalBytes; an invalid endorsement
\* gives 401 "Request Public Key was not endorsed by Manifold" whatever the
\* payload signature is, and a valid endorsement with an invalid payload
\* signature gives 401 "Request was not signed by included Public Key".
C5_ValidateChain ==
    ret.called =>
        LET endorsed == ValidSignature(pk, arg.sig.PublicKey, arg.sig.Endorsement)
            signed == ValidSignature(arg.sig.PublicKey, arg.b, arg.sig.Value)
        IN  /\ ret.value = NoError <=> endorsed /\ signed
            /\ ~endorsed =>
                  ret.value = Error(401, "Request Public Key was not endorsed by Manifold")
            /\ endorsed /\ ~signed =>
                  ret.value = Error(401, "Request was not signed by included Public Key")

\* C10: for a chain whose EphemeralPubKey is not exactly 32 bytes long (one whose
\* Endorsement is a valid master-key signature over those bytes included),
\* Validate returns a 401 error; it does not panic.
C10_WrongLengthKey ==
    ret.called /\ Len(arg.sig.PublicKey) # PublicKeySize =>
        ret.value.type = "Error" /\ ret.value.Code = 401

-----------------------------------------------------------------------------
(* Properties of Verify and of the middleware (under Spec).                *)

\* the absolute value of a duration, as a number
Abs(d) == IF d < 0 THEN 0 - d ELSE d

\* Verify has returned or panicked
Finished(p) == result[p] # Pending

\* the reader Verify reads fails
BodyReadFails(p) == entry[p] = "Verify" /\ body[p].err

\* the step of Verify's sequence that fails first, 8 when none does
FirstFailingStep(p) ==
    LET value == HeaderGet(req[p].Header, StrXSignature)
        chain == ParseSignature(value).sig
        canonical == Canonize(req[p], [data |-> body[p].data, err |-> FALSE]).bytes
    IN  IF value = <<>> THEN 1
        ELSE IF ~ParseSignature(value).ok THEN 2
        ELSE IF HeaderGet(req[p].Header, StrXSignedHeaders) = <<>> THEN 3
        ELSE IF ~ParsesRFC3339(HeaderGet(req[p].Header, StrDate)) THEN 4
        ELSE IF Abs(since[p]) > PermittedTimeSkew THEN 5
        ELSE IF BodyReadFails(p) THEN 6
        ELSE IF ~(/\ ValidSignature(pk, chain.PublicKey, chain.Endorsement)
                  /\ ValidSignature(chain.PublicKey, canonical, chain.Value)) THEN 7
        ELSE 8

\* what each failing step returns
StepError(p, step) ==
    CASE step = 1 -> Error(400, "Missing X-Signature header")
      [] step = 2 -> Error(400, "Could not parse X-Signature header")
      [] step = 3 -> Error(400, "Missing X-Signed-Headers header")
      [] step = 4 -> Error(400, "Unable to read request date")
      [] step = 5 -> Error(400, "Request time skew is too great")
      [] step = 6 -> Error(400, "Unable to read request body")
      [] step = 7 ->
            LET chain == ParseSignature(HeaderGet(req[p].Header, StrXSignature)).sig
            IN  IF ValidSignature(pk, chain.PublicKey, chain.Endorsement)
                THEN Error(401, "Request was not signed by included Public Key")
                ELSE Error(401, "Request Public Key was not endorsed by Manifold")
      [] step = 8 -> NoError

\* C1: Verify is fail-fast in the order (1) X-Signature missing or empty, (2)
\* X-Signature not parsable, (3) X-Signed-Headers missing or empty, (4) Date not
\* RFC 3339, (5) absolute skew above 5 minutes, (6) body read error, (7) chain
\* validation: it returns the error of the earliest failing step, runs no later
\* step (when one of the steps 1-5 fails the body reader is not read and no
\* signature is checked), and returns nil only when all seven steps pass.
C1_FailFast ==
    \A p \in DOMAIN pc :
        Finished(p) =>
            /\ result[p] = StepError(p, FirstFailingStep(p))
            /\ FirstFailingStep(p) <= 5 => verifyRead[p] = 0 /\ sigChecks[p] = 0
            /\ FirstFailingStep(p) = 6 => sigChecks[p] = 0

\* C4: with d the duration the clock function returns for the parsed Date, the
\* request passes Verify's freshness step iff |d| <= 5 minutes, and fails it with
\* 400 "Request time skew is too great" otherwise.
C4_Freshness ==
    \A p \in DOMAIN pc :
        /\ pc[p] = "Canonize" => Abs(since[p]) <= PermittedTimeSkew
        /\ Finished(p) /\ FirstFailingStep(p) > 4 /\ Abs(since[p]) > PermittedTimeSkew =>
              result[p] = Error(400, "Request time skew is too great")

\* the number a decimal numeral stands for
RECURSIVE DecimalValue(_)
DecimalValue(s) ==
    IF s = <<>> THEN 0 ELSE DecimalValue(SubSeq(s, 1, Len(s) - 1)) * 10 + (s[Len(s)] - 48)

\* the middleware could not read the request's body
MiddlewareReadFailed(p) == entry[p] = "Negroni" /\ body[p].err /\ body[p].reads > 0

\* the middleware's Verify returned an error
VerifyReturnedError(p) ==
    entry[p] = "Negroni" /\ pc[p] \in {"returned", "next", "done"} /\ result[p].type = "Error"

\* C2: when the middleware cannot read the body or Verify returns an error, the
\* inner handler is never invoked and exactly one response is written: its
\* status is the error's code (400 for an unreadable body, Verify's 400 or 401
\* otherwise), its body the JSON object {"message": <message>}, its Content-Type
\* application/json and its Content-Length the byte length of the body.
C2_Rejection ==
    \A p \in DOMAIN pc :
        MiddlewareReadFailed(p) \/ VerifyReturnedError(p) =>
            LET e == IF MiddlewareReadFailed(p)
                     THEN Error(400, "Could not ready body from request")
                     ELSE result[p]
            IN  /\ nextCalls[p] = 0
                /\ pc[p] \in {"returned", "done"}
                /\ Len(rw[p]) = (IF pc[p] = "done" THEN 1 ELSE 0)
                /\ pc[p] = "done" =>
                      /\ rw[p][1].Code = e.Code
                      /\ rw[p][1].Code \in {400, 401}
                      /\ rw[p][1].Body = "{\"message\":\"" \o e.Message \o "\"}"
                      /\ rw[p][1].Header.ContentType = "application/json"
                      /\ DecimalValue(rw[p][1].Header.ContentLength) = Len(rw[p][1].Body)

\* C2's case: the middleware has answered a request whose signature was not
\* made by the included key with 401 and the message of that error, and one
\* whose body could not be read with 400
C2_Witness ==
    /\ pc[1] = "done"
    /\ entry[1] = "Negroni"
    /\ nextCalls[1] = 0
    /\ Len(rw[1]) = 1
    /\ rw[1][1].Code = 401
    /\ rw[1][1].Body = "{\"message\":\"Request was not signed by included Public Key\"}"
    /\ rw[1][1].Header.ContentLength = <<53, 57>>

\* C3: when Verify succeeds the middleware invokes the inner handler exactly
\* once and writes no response of its own; the body the inner handler reads is,
\* in full and from its first byte, the original request body, although Verify
\* has consumed the buffered copy; the original body stream is read exactly once.
C3_PassThrough ==
    \A p \in DOMAIN pc :
        entry[p] = "Negroni" /\ result[p] = NoError =>
            /\ rw[p] = <<>>
            /\ body[p].reads = 1
            /\ verifyRead[p] = 1
            /\ buf[p].off = Len(buf[p].data)
            /\ pc[p] \in {"returned", "next", "done"}
            /\ nextCalls[p] = (IF pc[p] = "done" THEN 1 ELSE 0)
            /\ pc[p] = "next" => ReaderData(p, reqBody[p]) = body[p].data
            /\ pc[p] = "done" => handlerSaw[p] = body[p].data

\* C3's case: the inner handler has run once and read the body "hi", which
\* Verify had read to its end before
C3_Witness ==
    /\ pc[1] = "done"
    /\ entry[1] = "Negroni"
    /\ result[1] = NoError
    /\ nextCalls[1] = 1
    /\ buf[1] = [data |-> <<104, 105>>, off |-> 2]
    /\ handlerSaw[1] = <<104, 105>>

-----------------------------------------------------------------------------
(* Concurrent calls (under SpecConcurrent).                                *)

\* what call p returns when it runs alone
VerifyAlone(p) ==
    Verify(MasterKey, req[p], since[p],
           [data |-> body[p].data, err |-> entry[p] = "Verify" /\ body[p].err])

\* C9: a Verifier is safe for concurrent use: no step changes the Verifier's
\* master key or a request's method, URL or headers, and in every interleaving
\* of the steps of several calls each call ends as it does when run alone.
C9_ConcurrentUse ==
    /\ [][pk' = pk /\ req' = req]_vars
    /\ [](\A p \in DOMAIN pc : Finished(p) => result[p] = VerifyAlone(p))

\* C9's case: two calls with different requests are inside Verify at once, and
\* one has returned nil while the other, which will fail, is about to validate
C9_Witness ==
    /\ entry[1] = "Verify" /\ entry[2] = "Verify"
    /\ req[1] # req[2]
    /\ pc[1] = "returned" /\ result[1] = NoError
    /\ pc[2] = "Validate"
    /\ VerifyAlone(2) = Error(401, "Request was not signed by included Public Key")

====
